---- MODULE Spec2Model ----
(***************************************************************************)
(* Model of src/markdown-editor/MarkdownParser.ts: the line-oriented       *)
(* Markdown-to-HTML converter (Markdown.ToHtml), its chain of              *)
(* responsibility, the tag catalog and the document buffer.                *)
(*                                                                         *)
(* Strings are sequences of one-character strings, so that split,          *)
(* startsWith, substr and += are computed character by character.          *)
(***************************************************************************)
EXTENDS Integers, Sequences, FiniteSets, TLC

(***************************************************************************)
(* Bounds of the model.                                                    *)
(***************************************************************************)
\* longest free part of an input text
MaxLen == 4
\* longest run of '#' put in front of the free part
MaxHashes == 7
\* largest numeric value passed as a TagType to the tag catalog
MaxKind == 8
\* the same two lengths for the texts of repeated and of interleaved calls
MaxSmallLen == 2
MaxSmallHashes == 1
\* longest free part of a text converted with the handlers in another order
MaxOrderLen == 1
\* fragments passed to one MarkdownDocument
MaxAdded == 4

Alphabet == {"#", " ", "-", "a", "\n"}

SmallAlphabet == {"#", " ", "\n"}

Hashes(n) == [i \in 1..n |-> "#"]

StringsOver(A, n) == UNION {[1..k -> A] : k \in 0..n}

\* the texts handed to ToHtml
Inputs == {Hashes(n) \o s : n \in 0..MaxHashes, s \in StringsOver(Alphabet, MaxLen)}

\* the texts handed to repeated calls and to interleaved calls
SmallInputs ==
    {Hashes(n) \o s : n \in 0..MaxSmallHashes, s \in StringsOver(SmallAlphabet, MaxSmallLen)}

(***************************************************************************)
(* JavaScript values: a string, null or undefined.                         *)
(***************************************************************************)
Str(s) == [type |-> "string", value |-> s]

Null == [type |-> "null", value |-> <<>>]

Undefined == [type |-> "undefined", value |-> <<>>]

\* what a template literal `${v}` renders
TemplateText(v) ==
    CASE v.type = "string" -> v.value
      [] v.type = "null" -> <<"n", "u", "l", "l">>
      [] OTHER -> <<"u", "n", "d", "e", "f", "i", "n", "e", "d">>

(***************************************************************************)
(* enum TagType                                                            *)
(***************************************************************************)
Paragraph == 0
Header1 == 1
Header2 == 2
Header3 == 3
Header4 == 4
Header5 == 5
Header6 == 6
HorizontalRule == 7

TagType ==
    {Paragraph, Header1, Header2, Header3, Header4, Header5, Header6, HorizontalRule}

(***************************************************************************)
(* class TagTypeToHtml                                                     *)
(***************************************************************************)
\* the Map the constructor fills: the pairs set, in order; a later set of the
\* same key would replace the earlier one
tagTypeEntries ==
    << <<Header1, <<"h", "1">> >>,
       <<Header2, <<"h", "2">> >>,
       <<Header3, <<"h", "3">> >>,
       <<Header4, <<"h", "4">> >>,
       <<Header5, <<"h", "5">> >>,
       <<Header6, <<"h", "6">> >>,
       <<Paragraph, <<"p">> >>,
       <<HorizontalRule, <<"h", "r">> >> >>

\* Map.prototype.get: the value last set for the key, undefined when there is none
MapGet(entries, key) ==
    LET hits == {i \in 1..Len(entries) : entries[i][1] = key}
    IN  IF hits = {} THEN Undefined
        ELSE Str(entries[CHOOSE i \in hits : \A j \in hits : j <= i][2])

getTag(tagType, openingTagPattern) ==
    LET tag == MapGet(tagTypeEntries, tagType)
    IN  IF tag # Null
        THEN openingTagPattern \o TemplateText(tag) \o <<">">>
        ELSE openingTagPattern \o <<"p", ">">>

OpeningTag(tagType) == getTag(tagType, <<"<">>)

ClosingTag(tagType) == getTag(tagType, <<"<", "/">>)

(***************************************************************************)
(* class MarkdownDocument                                                  *)
(***************************************************************************)
\* the field initialiser: content = ""
NewMarkdownDocument == <<>>

RECURSIVE AddSeparated(_, _)
\* Add, were it to end every element with a line break
AddSeparated(content, elements) ==
    IF elements = <<>> THEN content
    ELSE AddSeparated(content \o Head(elements) \o <<"\n">>, Tail(elements))

RECURSIVE AddReplacing(_, _)
\* Add, were it to assign each element instead of appending it
AddReplacing(content, elements) ==
    IF elements = <<>> THEN content
    ELSE AddReplacing(Head(elements), Tail(elements))

RECURSIVE Add(_, _)
\* content.forEach(element => this.content += element)
Add(content, elements) ==
    IF elements = <<>> THEN content
    ELSE Add(content \o Head(elements), Tail(elements))

Get(content) == content

(***************************************************************************)
(* VisitorBase.Visit, reached through Visitable.Accept                     *)
(***************************************************************************)
Visit(tagType, CurrentLine, content) ==
    Add(content, <<OpeningTag(tagType), CurrentLine, ClosingTag(tagType)>>)

Accept(tagType, CurrentLine, content) == Visit(tagType, CurrentLine, content)

(***************************************************************************)
(* class LineParser                                                        *)
(***************************************************************************)
\* startsWith, were it to compare the first character only
StartsWithFirstChar(value, tag) ==
    Len(value) >= 1 /\ Len(tag) >= 1 /\ value[1] = tag[1]

\* String.prototype.startsWith
StartsWith(value, tag) ==
    /\ Len(tag) <= Len(value)
    /\ \A i \in 1..Len(tag) : value[i] = tag[i]

\* String.prototype.substr(start), start >= 0
Substr(value, start) == SubSeq(value, start + 1, Len(value))

RECURSIVE TrimStart(_)
TrimStart(value) ==
    IF value # <<>> /\ Head(value) = " " THEN TrimStart(Tail(value)) ELSE value

\* Parse, were it to trim the white space that follows the prefix
ParseTrimmed(value, tag) ==
    IF value = <<>> THEN <<FALSE, value>>
    ELSE IF StartsWith(value, tag) THEN <<TRUE, TrimStart(Substr(value, Len(tag)))>>
    ELSE <<FALSE, value>>

Parse(value, tag) ==
    IF value = <<>> THEN <<FALSE, value>>
    ELSE IF StartsWith(value, tag) THEN <<TRUE, Substr(value, Len(tag))>>
    ELSE <<FALSE, value>>

(***************************************************************************)
(* The handlers and ChainOfResponsibilityFactory.Build                     *)
(***************************************************************************)
\* Handler.next before any SetNext
NULL == 0

ParseChainHandler(tagType, visitor) ==
    [class |-> "ParseChainHandler", tagType |-> tagType, visitor |-> visitor]

ParagraphHandler == [class |-> "ParagraphHandler", tagType |-> <<>>, visitor |-> Paragraph]

\* the level-1 handler, were its prefix to lack the space
Header1NoSpace == ParseChainHandler(<<"#">>, Header1)

Header1ChainHandler == ParseChainHandler(<<"#", " ">>, Header1)

\* the level-2 handler, were its prefix to lack the space
Header2NoSpace == ParseChainHandler(<<"#", "#">>, Header2)

Header2ChainHandler == ParseChainHandler(<<"#", "#", " ">>, Header2)

Header3ChainHandler == ParseChainHandler(<<"#", "#", "#", " ">>, Header3)

Header4ChainHandler == ParseChainHandler(<<"#", "#", "#", "#", " ">>, Header4)

Header5ChainHandler == ParseChainHandler(<<"#", "#", "#", "#", "#", " ">>, Header5)

Header6ChainHandler == ParseChainHandler(<<"#", "#", "#", "#", "#", "#", " ">>, Header6)

\* the horizontal-rule handler, were its prefix two dashes
HorizontalRuleShort == ParseChainHandler(<<"-", "-">>, HorizontalRule)

HorizontalRuleHandler == ParseChainHandler(<<"-", "-", "-">>, HorizontalRule)

SetNext(next, handler, successor) == [next EXCEPT ![handler] = successor]

\* Build, were the horizontal-rule handler linked back to the head of the chain
BuildCyclic ==
    LET objects == <<Header1ChainHandler, Header2ChainHandler, Header3ChainHandler,
                     Header4ChainHandler, Header5ChainHandler, Header6ChainHandler,
                     HorizontalRuleHandler, ParagraphHandler>>
        header1 == 1
        header2 == 2
        header3 == 3
        header4 == 4
        header5 == 5
        header6 == 6
        horizontalRule == 7
        paragraph == 8
        n0 == [h \in 1..Len(objects) |-> NULL]
        n1 == SetNext(n0, header1, header2)
        n2 == SetNext(n1, header2, header3)
        n3 == SetNext(n2, header3, header4)
        n4 == SetNext(n3, header4, header5)
        n5 == SetNext(n4, header5, header6)
        n6 == SetNext(n5, header6, horizontalRule)
        n7 == SetNext(n6, horizontalRule, header1)
    IN  [head |-> header1, objects |-> objects, next |-> n7]

\* Build, were the header handlers linked from level 6 down to level 1
BuildHeader6First ==
    LET objects == <<Header1ChainHandler, Header2ChainHandler, Header3ChainHandler,
                     Header4ChainHandler, Header5ChainHandler, Header6ChainHandler,
                     HorizontalRuleHandler, ParagraphHandler>>
        header1 == 1
        header2 == 2
        header3 == 3
        header4 == 4
        header5 == 5
        header6 == 6
        horizontalRule == 7
        paragraph == 8
        n0 == [h \in 1..Len(objects) |-> NULL]
        n1 == SetNext(n0, header6, header5)
        n2 == SetNext(n1, header5, header4)
        n3 == SetNext(n2, header4, header3)
        n4 == SetNext(n3, header3, header2)
        n5 == SetNext(n4, header2, header1)
        n6 == SetNext(n5, header1, horizontalRule)
        n7 == SetNext(n6, horizontalRule, paragraph)
    IN  [head |-> header6, objects |-> objects, next |-> n7]

\* The handlers are numbered in the order Build constructs them; the result is
\* the head of the chain, the objects and their next links.
Build ==
    LET objects == <<Header1ChainHandler, Header2ChainHandler, Header3ChainHandler,
                     Header4ChainHandler, Header5ChainHandler, Header6ChainHandler,
                     HorizontalRuleHandler, ParagraphHandler>>
        header1 == 1
        header2 == 2
        header3 == 3
        header4 == 4
        header5 == 5
        header6 == 6
        horizontalRule == 7
        paragraph == 8
        n0 == [h \in 1..Len(objects) |-> NULL]
        n1 == SetNext(n0, header1, header2)
        n2 == SetNext(n1, header2, header3)
        n3 == SetNext(n2, header3, header4)
        n4 == SetNext(n3, header4, header5)
        n5 == SetNext(n4, header5, header6)
        n6 == SetNext(n5, header6, horizontalRule)
        n7 == SetNext(n6, horizontalRule, paragraph)
    IN  [head |-> header1, objects |-> objects, next |-> n7]

\* ParseChainHandler.CanHandle and ParagraphHandler.CanHandle: whether the handler
\* took the request, and the request's line and the document afterwards
CanHandle(h, CurrentLine, content) ==
    IF h.class = "ParagraphHandler"
    THEN [handled |-> TRUE, CurrentLine |-> CurrentLine,
          content |-> Accept(h.visitor, CurrentLine, content)]
    ELSE LET split == Parse(CurrentLine, h.tagType)
         IN  IF split[1]
             THEN [handled |-> TRUE, CurrentLine |-> split[2],
                   content |-> Accept(h.visitor, split[2], content)]
             ELSE [handled |-> FALSE, CurrentLine |-> CurrentLine, content |-> content]

RECURSIVE HandleRequest(_, _, _, _)
\* Handler.HandleRequest as the recursion it is: the document afterwards
HandleRequest(chain, handler, CurrentLine, content) ==
    LET r == CanHandle(chain.objects[handler], CurrentLine, content)
    IN  IF ~r.handled
        THEN IF chain.next[handler] # NULL
             THEN HandleRequest(chain, chain.next[handler], r.CurrentLine, r.content)
             ELSE r.content
        ELSE r.content

(***************************************************************************)
(* String.prototype.split on the one-character separator "\n"              *)
(***************************************************************************)
RECURSIVE SplitFrom(_, _, _)
\* parts: the lines closed so far; cur: the line being read
SplitFrom(rest, parts, cur) ==
    IF rest = <<>> THEN Append(parts, cur)
    ELSE IF Head(rest) = "\n" THEN SplitFrom(Tail(rest), Append(parts, cur), <<>>)
    ELSE SplitFrom(Tail(rest), parts, Append(cur, Head(rest)))

RECURSIVE DropTrailingEmpty(_)
DropTrailingEmpty(parts) ==
    IF parts # <<>> /\ parts[Len(parts)] = <<>>
    THEN DropTrailingEmpty(SubSeq(parts, 1, Len(parts) - 1))
    ELSE parts

\* split, were it to drop the empty strings at the end of its result
SplitDropTrailing(text) == DropTrailingEmpty(SplitFrom(text, <<>>, <<>>))

Split(text) == SplitFrom(text, <<>>, <<>>)

(***************************************************************************)
(* Markdown.ToHtml as a function of its argument                           *)
(***************************************************************************)
RECURSIVE ToHtmlLoop(_, _, _, _)
ToHtmlLoop(chain, lines, index, content) ==
    IF index < Len(lines)
    THEN ToHtmlLoop(chain, lines, index + 1,
                    HandleRequest(chain, chain.head, lines[index + 1], content))
    ELSE Get(content)

ToHtml(text) == ToHtmlLoop(Build, Split(text), 0, NewMarkdownDocument)

(***************************************************************************)
(* State of one Markdown instance and of the conversion under way          *)
(***************************************************************************)
VARIABLES
    pc,           \* "idle", "loop" (head of the for loop), "chain" (in HandleRequest), "done"
    text,         \* the argument of the call
    lines,        \* text.split("\n")
    index,        \* the loop variable
    handler,      \* the handler whose HandleRequest runs; NULL outside the chain
    CurrentLine,  \* parseElement.CurrentLine
    content,      \* the document's buffer
    result,       \* what the call returned
    earlier,      \* history: a call on this instance returned before this one began
    log,          \* history: per line, the handlers offered it, those that took it, what each added
    tagOut,       \* what a direct OpeningTag/ClosingTag call returned
    conv,         \* the interleaved calls: each one's pc, text, lines, index, content, result,
                  \* and history: whether it handled a line while another call was between two of its own
    doc,          \* a MarkdownDocument used on its own: its content, what the last Get returned,
                  \* and history: every fragment passed to Add, how many there were at the last Get
    ui,           \* the page and its HtmlHandler
    alt           \* a conversion with the prefix handlers linked in another order

vars == <<pc, text, lines, index, handler, CurrentLine, content, result, earlier, log, tagOut, conv, doc, ui, alt>>

seq == <<pc, text, lines, index, handler, CurrentLine, content, result, earlier, log>>

\* the calls that run interleaved
Procs == {1, 2}

IdleCall ==
    [pc |-> "idle", text |-> <<>>, lines |-> <<>>, index |-> 0, content |-> <<>>,
     result |-> <<>>, mixed |-> FALSE]

\* another call than p has handled some of its lines and not yet all
OtherBetweenLines(p) ==
    \E q \in Procs \ {p} :
        conv[q].pc = "loop" /\ 0 < conv[q].index /\ conv[q].index < Len(conv[q].lines)

\* new MarkdownDocument(), not yet used
NewDocument ==
    [content |-> NewMarkdownDocument, got |-> <<>>, asked |-> FALSE, history |-> <<>>,
     gotAt |-> 0]

\* before TextChangeHandler is called
NoPage ==
    [called |-> FALSE, inputExists |-> FALSE, outputExists |-> FALSE, registered |-> FALSE,
     value |-> <<>>, display |-> <<>>, written |-> FALSE, thrown |-> FALSE,
     events |-> FALSE, lastEvent |-> "", lastValue |-> <<>>, converted |-> FALSE]

NoOrder ==
    [order |-> <<>>, chain |-> NULL, built |-> FALSE,
     text |-> <<>>, result |-> <<>>, asked |-> FALSE]

NoTag == [kind |-> NULL, opening |-> <<>>, closing |-> <<>>, asked |-> FALSE]

Init ==
    /\ pc = "idle"
    /\ text = <<>>
    /\ lines = <<>>
    /\ index = 0
    /\ handler = NULL
    /\ CurrentLine = <<>>
    /\ content = <<>>
    /\ result = <<>>
    /\ earlier = FALSE
    /\ log = <<>>
    /\ tagOut = NoTag
    /\ conv = [p \in Procs |-> IdleCall]
    /\ doc = NewDocument
    /\ ui = NoPage
    /\ alt = NoOrder

\* ToHtmlCall, were the document a field of the Markdown instance that every
\* call appends to
ToHtmlCallStale(S) ==
    /\ \E t \in S :
         /\ text' = t
         /\ lines' = Split(t)
    /\ content' = content
    /\ index' = 0
    /\ handler' = NULL
    /\ CurrentLine' = <<>>
    /\ result' = <<>>
    /\ earlier' = (pc = "done")
    /\ log' = <<>>
    /\ tagOut' = NoTag
    /\ pc' = "loop"
    /\ UNCHANGED <<conv, doc, ui, alt>>

\* ToHtml's first three statements, for an argument drawn from S: a new
\* document, a new chain, the split
ToHtmlCall(S) ==
    /\ \E t \in S :
         /\ text' = t
         /\ lines' = Split(t)
    /\ content' = NewMarkdownDocument
    /\ index' = 0
    /\ handler' = NULL
    /\ CurrentLine' = <<>>
    /\ result' = <<>>
    /\ earlier' = (pc = "done")
    /\ log' = <<>>
    /\ tagOut' = NoTag
    /\ pc' = "loop"
    /\ UNCHANGED <<conv, doc, ui, alt>>

\* the first call on a Markdown instance
ToHtmlEnter ==
    /\ pc = "idle"
    /\ ToHtmlCall(Inputs)

\* a call on a Markdown instance, the first or one after another returned
ToHtmlAgain ==
    /\ pc \in {"idle", "done"}
    /\ ToHtmlCall(SmallInputs)

\* the loop's test passing: a new ParseElement handed to the head of the chain
ToHtmlLine ==
    /\ pc = "loop"
    /\ index < Len(lines)
    /\ CurrentLine' = lines[index + 1]
    /\ handler' = Build.head
    /\ log' = Append(log, [line |-> lines[index + 1], offered |-> <<>>,
                           accepted |-> <<>>, added |-> <<>>])
    /\ pc' = "chain"
    /\ UNCHANGED <<text, lines, index, content, result, earlier, tagOut, conv, doc, ui, alt>>

\* HandleRequest, were it to pass the request on whether or not it was handled
HandleRequestStepFallThrough ==
    /\ pc = "chain"
    /\ LET r == CanHandle(Build.objects[handler], CurrentLine, content)
           entry == log[Len(log)]
           seen == [entry EXCEPT
                      !.offered = Append(@, handler),
                      !.accepted = IF r.handled THEN Append(@, handler) ELSE @,
                      !.added = IF r.content # content
                                THEN Append(@, Substr(r.content, Len(content)))
                                ELSE @]
       IN  /\ CurrentLine' = r.CurrentLine
           /\ content' = r.content
           /\ log' = [log EXCEPT ![Len(log)] = seen]
           /\ IF Build.next[handler] # NULL
              THEN /\ handler' = Build.next[handler]
                   /\ UNCHANGED <<pc, index>>
              ELSE /\ handler' = NULL
                   /\ index' = index + 1
                   /\ pc' = "loop"
    /\ UNCHANGED <<text, lines, result, earlier, tagOut, conv, doc, ui, alt>>

\* one HandleRequest: CanHandle, then the next handler or the return to the loop
HandleRequestStep ==
    /\ pc = "chain"
    /\ LET r == CanHandle(Build.objects[handler], CurrentLine, content)
           entry == log[Len(log)]
           seen == [entry EXCEPT
                      !.offered = Append(@, handler),
                      !.accepted = IF r.handled THEN Append(@, handler) ELSE @,
                      !.added = IF r.content # content
                                THEN Append(@, Substr(r.content, Len(content)))
                                ELSE @]
       IN  /\ CurrentLine' = r.CurrentLine
           /\ content' = r.content
           /\ log' = [log EXCEPT ![Len(log)] = seen]
           /\ IF ~r.handled /\ Build.next[handler] # NULL
              THEN /\ handler' = Build.next[handler]
                   /\ UNCHANGED <<pc, index>>
              ELSE /\ handler' = NULL
                   /\ index' = index + 1
                   /\ pc' = "loop"
    /\ UNCHANGED <<text, lines, result, earlier, tagOut, conv, doc, ui, alt>>

\* the loop's test failing: return document.Get()
ToHtmlReturn ==
    /\ pc = "loop"
    /\ ~(index < Len(lines))
    /\ result' = Get(content)
    /\ pc' = "done"
    /\ UNCHANGED <<text, lines, index, handler, CurrentLine, content, earlier, log, tagOut, conv, doc, ui, alt>>

\* a direct call of the catalog's two public methods with a numeric TagType
TagLookup ==
    /\ pc = "idle"
    /\ \E k \in 0..MaxKind :
         tagOut' = [kind |-> k, opening |-> OpeningTag(k), closing |-> ClosingTag(k),
                    asked |-> TRUE]
    /\ UNCHANGED <<pc, text, lines, index, handler, CurrentLine, content, result, earlier, log, conv, doc, ui, alt>>

Next == ToHtmlEnter \/ ToHtmlLine \/ HandleRequestStep \/ ToHtmlReturn \/ TagLookup

Spec == Init /\ [][Next]_vars

\* one Markdown instance called again and again
NextRepeat == ToHtmlAgain \/ ToHtmlLine \/ HandleRequestStep \/ ToHtmlReturn

SpecRepeat == Init /\ [][NextRepeat]_vars

(***************************************************************************)
(* Calls of ToHtml interleaved line by line, each with the document and    *)
(* the chain it created                                                    *)
(***************************************************************************)
ConvEnter(p) ==
    /\ conv[p].pc = "idle"
    /\ \E t \in SmallInputs :
         conv' = [conv EXCEPT ![p] = [pc |-> "loop", text |-> t, lines |-> Split(t),
                                      index |-> 0, content |-> NewMarkdownDocument,
                                      result |-> <<>>, mixed |-> FALSE]]
    /\ UNCHANGED <<seq, tagOut, doc, ui, alt>>

\* ConvLine, were there one document that every call appends to
ConvLineShared(p) ==
    /\ conv[p].pc = "loop"
    /\ conv[p].index < Len(conv[p].lines)
    /\ LET shared == CHOOSE q \in Procs : \A o \in Procs : q <= o
       IN  conv' = [[conv EXCEPT ![p].index = @ + 1,
                                 ![p].mixed = @ \/ OtherBetweenLines(p)] EXCEPT
                      ![shared].content = HandleRequest(Build, Build.head,
                                                        conv[p].lines[conv[p].index + 1], @)]
    /\ UNCHANGED <<seq, tagOut, doc, ui, alt>>

\* one iteration of the loop: the line through the chain into p's own document
ConvLine(p) ==
    /\ conv[p].pc = "loop"
    /\ conv[p].index < Len(conv[p].lines)
    /\ conv' = [conv EXCEPT
                  ![p].content = HandleRequest(Build, Build.head,
                                               conv[p].lines[conv[p].index + 1], @),
                  ![p].index = @ + 1,
                  ![p].mixed = @ \/ OtherBetweenLines(p)]
    /\ UNCHANGED <<seq, tagOut, doc, ui, alt>>

ConvReturn(p) ==
    /\ conv[p].pc = "loop"
    /\ ~(conv[p].index < Len(conv[p].lines))
    /\ conv' = [conv EXCEPT ![p].result = Get(conv[p].content), ![p].pc = "done"]
    /\ UNCHANGED <<seq, tagOut, doc, ui, alt>>

NextConcurrent == \E p \in Procs : ConvEnter(p) \/ ConvLine(p) \/ ConvReturn(p)

SpecConcurrent == Init /\ [][NextConcurrent]_vars

(***************************************************************************)
(* A MarkdownDocument called directly: any sequence of Add and Get         *)
(***************************************************************************)
\* the strings passed to Add
Fragments == {<<>>, <<"a">>, <<"<", "p", ">">>}

\* the argument lists of one Add call: none, one or two fragments
ArgumentLists == {<<>>} \cup {<<f>> : f \in Fragments} \cup {<<f, g>> : f, g \in Fragments}

DocAdd ==
    /\ \E elements \in ArgumentLists :
         /\ Len(doc.history) + Len(elements) <= MaxAdded
         /\ doc' = [doc EXCEPT !.content = Add(@, elements),
                                !.history = @ \o elements]
    /\ UNCHANGED <<seq, tagOut, conv, ui, alt>>

DocGet ==
    /\ doc' = [doc EXCEPT !.got = Get(doc.content), !.asked = TRUE,
                           !.gotAt = Len(doc.history)]
    /\ UNCHANGED <<seq, tagOut, conv, ui, alt>>

NextDocument == DocAdd \/ DocGet

SpecDocument == Init /\ [][NextDocument]_vars

(***************************************************************************)
(* class HtmlHandler and the page: the input element (a textarea), the     *)
(* display element, the key-up and load events                             *)
(***************************************************************************)
\* RenderHtmlContent, were it to write the empty string for an empty value
RenderHtmlContentBlank(page) ==
    IF ~page.outputExists
    THEN [page EXCEPT !.thrown = TRUE]
    ELSE IF page.value # <<>>
    THEN [page EXCEPT !.display = ToHtml(page.value), !.written = TRUE, !.converted = TRUE]
    ELSE [page EXCEPT !.display = <<>>, !.written = TRUE, !.converted = FALSE]

\* RenderHtmlContent: the page afterwards. Assigning innerHTML of an element
\* that getElementById did not find (null) throws a TypeError and writes nothing;
\* the empty string is the one falsy value of markdown.value.
RenderHtmlContent(page) ==
    IF ~page.outputExists
    THEN [page EXCEPT !.thrown = TRUE]
    ELSE IF page.value # <<>>
    THEN [page EXCEPT !.display = ToHtml(page.value), !.written = TRUE, !.converted = TRUE]
    ELSE [page EXCEPT !.display = <<"<", "p", ">", "<", "/", "p", ">">>, !.written = TRUE,
                      !.converted = FALSE]

\* TextChangeHandler(inputId, outputId) on a page that may lack either element:
\* the two handlers are set only when the input element is there
TextChangeHandler ==
    /\ ~ui.called
    /\ \E inputExists \in BOOLEAN, outputExists \in BOOLEAN :
         ui' = [ui EXCEPT !.called = TRUE, !.inputExists = inputExists,
                          !.outputExists = outputExists, !.registered = inputExists]
    /\ UNCHANGED <<seq, tagOut, conv, doc, alt>>

\* the user changes the text of the input element
Edit ==
    /\ ui.called
    /\ ui.inputExists
    /\ \E v \in SmallInputs : ui' = [ui EXCEPT !.value = v]
    /\ UNCHANGED <<seq, tagOut, conv, doc, alt>>

\* an event whose handler is the arrow function calling RenderHtmlContent
Event(name) ==
    /\ ui.registered
    /\ ui' = [RenderHtmlContent(ui) EXCEPT !.events = TRUE, !.lastEvent = name,
                                           !.lastValue = ui.value]
    /\ UNCHANGED <<seq, tagOut, conv, doc, alt>>

\* markdown.onkeyup
KeyUp == Event("keyup")

\* window.onload
Load == Event("load")

NextPage == TextChangeHandler \/ Edit \/ KeyUp \/ Load

SpecPage == Init /\ [][NextPage]_vars

(***************************************************************************)
(* ToHtml with the seven prefix handlers of Build linked in another order, *)
(* the paragraph handler staying last                                      *)
(***************************************************************************)
\* the orders: the permutations of the seven prefix handlers
Orders ==
    {order \in [1..(Len(Build.objects) - 1) -> 1..(Len(Build.objects) - 1)] :
        \A i, j \in DOMAIN order : i # j => order[i] # order[j]}

\* Build's objects, with SetNext called along order and last on the paragraph handler
BuildInOrder(order) ==
    LET paragraph == Len(Build.objects)
    IN  [head |-> order[1],
         objects |-> Build.objects,
         next |-> [h \in 1..paragraph |->
                     IF h = paragraph THEN NULL
                     ELSE LET at == CHOOSE i \in DOMAIN order : order[i] = h
                          IN  IF at = Len(order) THEN paragraph ELSE order[at + 1]]]

\* the texts converted: a run of '#' or the rule's dashes, then a short free part
\* of spaces and line breaks
OrderInputs ==
    {lead \o s : lead \in {Hashes(n) : n \in 0..MaxHashes} \cup {<<"-", "-", "-">>},
                 s \in StringsOver({" ", "\n"}, MaxOrderLen)}

\* the factory's Build with its SetNext calls along another order
BuildOrder ==
    /\ ~alt.built
    /\ \E order \in Orders :
         alt' = [alt EXCEPT !.order = order, !.chain = BuildInOrder(order), !.built = TRUE]
    /\ UNCHANGED <<seq, tagOut, conv, doc, ui>>

\* Markdown.ToHtml over the chain built in that order
ToHtmlInOrder ==
    /\ alt.built
    /\ ~alt.asked
    /\ \E t \in OrderInputs :
         alt' = [alt EXCEPT !.text = t, !.asked = TRUE,
                            !.result = ToHtmlLoop(alt.chain, Split(t), 0, NewMarkdownDocument)]
    /\ UNCHANGED <<seq, tagOut, conv, doc, ui>>

NextOrder == BuildOrder \/ ToHtmlInOrder

SpecOrder == Init /\ [][NextOrder]_vars

(***************************************************************************)
(* Vocabulary of the properties, written without the model's operators     *)
(***************************************************************************)
NewlinesOf(t) == {i \in 1..Len(t) : t[i] = "\n"}

\* the position of the k-th newline of t; 0 before the first, Len(t) + 1 after the last
NewlineAt(t, k) ==
    IF k = 0 THEN 0
    ELSE IF k > Cardinality(NewlinesOf(t)) THEN Len(t) + 1
    ELSE CHOOSE j \in NewlinesOf(t) : Cardinality({m \in NewlinesOf(t) : m <= j}) = k

\* the i-th line of t: what stands between its (i-1)-th and its i-th newline
LineOf(t, i) == SubSeq(t, NewlineAt(t, i - 1) + 1, NewlineAt(t, i) - 1)

RECURSIVE Flatten(_)
Flatten(ss) == IF ss = <<>> THEN <<>> ELSE Head(ss) \o Flatten(Tail(ss))

ElementNames ==
    {<<"p">>, <<"h", "r">>, <<"h", "1">>, <<"h", "2">>, <<"h", "3">>, <<"h", "4">>,
     <<"h", "5">>, <<"h", "6">>}

Wrapped(name, body) == <<"<">> \o name \o <<">">> \o body \o <<"<", "/">> \o name \o <<">">>

HeaderName(n) == <<"h", <<"1", "2", "3", "4", "5", "6">>[n]>>

HeaderPrefix(n) == [i \in 1..(n + 1) |-> IF i <= n THEN "#" ELSE " "]

HasPrefix(line, prefix) ==
    /\ Len(line) >= Len(prefix)
    /\ SubSeq(line, 1, Len(prefix)) = prefix

SevenPrefixes == {HeaderPrefix(n) : n \in 1..6} \cup {<<"-", "-", "-">>}

\* the fragments a line may legitimately become: one element's opening tag, what
\* is left of the line after some prefix of it, the same element's closing tag
FragmentsOf(line) ==
    {Wrapped(name, SubSeq(line, k + 1, Len(line))) : name \in ElementNames, k \in 0..Len(line)}

\* the i-th line of the call under way has been through the chain
Handled(i) == i \in 1..Len(log) /\ (i < Len(log) \/ pc \in {"loop", "done"})

\* C1: ToHtml(text) is the concatenation, in line order and with nothing in
\* between, of the fragments produced for the lines of text.split("\n"); a text
\* with k newlines yields exactly k + 1 fragments.
C1_Concatenation ==
    pc = "done" =>
        /\ Len(log) = Cardinality(NewlinesOf(text)) + 1
        /\ \A i \in 1..Len(log) :
              /\ log[i].line = LineOf(text, i)
              /\ Len(log[i].added) = 1
              /\ log[i].added[1] \in FragmentsOf(LineOf(text, i))
        /\ result = Flatten([i \in 1..Len(log) |-> log[i].added[1]])

\* three lines (a header, a paragraph, the empty line after the last newline),
\* returned in their order
C1_Witness ==
    /\ pc = "done"
    /\ text = <<"#", "#", " ", "\n", "a", "\n">>
    /\ result = Wrapped(<<"h", "2">>, <<>>) \o Wrapped(<<"p">>, <<"a">>)
                   \o Wrapped(<<"p">>, <<>>)

\* C2: one pass of a line through the chain makes exactly one handler accept
\* it and appends exactly one fragment, opening tag + content + closing tag of
\* one tag kind; the handler that accepts is the last one invoked, and while
\* the line is still in the chain no handler has accepted it.
C2_OneFragment ==
    \A i \in 1..Len(log) :
        IF Handled(i)
        THEN /\ Len(log[i].accepted) = 1
             /\ log[i].accepted[1] = log[i].offered[Len(log[i].offered)]
             /\ Len(log[i].added) = 1
             /\ log[i].added[1] \in FragmentsOf(log[i].line)
        ELSE log[i].accepted = <<>> /\ log[i].added = <<>>

\* "# ## " is a level-1 header whose content "## " is not offered to the level-2 rule
C2_Witness ==
    /\ pc = "done"
    /\ text = <<"#", " ", "#", "#", " ">>
    /\ result = Wrapped(<<"h", "1">>, <<"#", "#", " ">>)
    /\ log[1].offered = <<1>>

\* C3: for n in 1..6 a line of n '#', one space, then r is rendered as
\* <hn> r </hn>.
C3_Headers ==
    \A i \in 1..Len(log) : \A n \in 1..6 :
        (Handled(i) /\ HasPrefix(log[i].line, HeaderPrefix(n))) =>
            log[i].added = <<Wrapped(HeaderName(n), SubSeq(log[i].line, n + 2, Len(log[i].line)))>>

\* "### a" is a level-3 header
C3_Witness ==
    /\ pc = "done"
    /\ text = <<"#", "#", "#", " ", "a">>
    /\ result = Wrapped(<<"h", "3">>, <<"a">>)

\* C4: a line that starts with none of the seven literal prefixes is offered
\* to all seven prefix handlers, in vain, and then rendered as <p> line </p>,
\* unmodified.
C4_Paragraph ==
    \A i \in 1..Len(log) :
        (Handled(i) /\ \A prefix \in SevenPrefixes : ~HasPrefix(log[i].line, prefix)) =>
            /\ log[i].offered = <<1, 2, 3, 4, 5, 6, 7, 8>>
            /\ log[i].accepted = <<8>>
            /\ log[i].added = <<Wrapped(<<"p">>, log[i].line)>>

\* "##a": a run of '#' with no space after it
C4_Witness ==
    /\ pc = "done"
    /\ text = <<"#", "#", "a">>
    /\ result = Wrapped(<<"p">>, <<"#", "#", "a">>)

\* C5: an empty line matches no prefix rule and is rendered as <p></p>; so
\* ToHtml("") is <p></p>, and so is the share of every empty line of a longer
\* text, the one after a trailing newline included.
C5_EmptyLine ==
    /\ \A i \in 1..Len(log) :
          (Handled(i) /\ LineOf(text, i) = <<>>) =>
              /\ log[i].accepted = <<8>>
              /\ log[i].added = <<Wrapped(<<"p">>, <<>>)>>
    /\ pc = "done" =>
          /\ text = <<>> => result = Wrapped(<<"p">>, <<>>)
          /\ \A i \in 1..(Cardinality(NewlinesOf(text)) + 1) :
                LineOf(text, i) = <<>> => i <= Len(log) /\ Handled(i)

\* "a" and a trailing newline: the empty line after it is a paragraph of its own
C5_Witness ==
    /\ pc = "done"
    /\ text = <<"a", "\n">>
    /\ result = Wrapped(<<"p">>, <<"a">>) \o Wrapped(<<"p">>, <<>>)

\* C6: the line "---" is rendered as <hr></hr>: the whole prefix is consumed,
\* the remainder is empty, an opening and a closing hr tag are emitted.
C6_HorizontalRule ==
    (pc = "done" /\ text = <<"-", "-", "-">>) =>
        /\ result = <<"<", "h", "r", ">", "<", "/", "h", "r", ">">>
        /\ log[1].accepted = <<7>>
        /\ CurrentLine = <<>>

C6_Witness == pc = "done" /\ text = <<"-", "-", "-">> /\ Len(result) = 9

\* C7: ToHtml keeps no state between calls: after any sequence of earlier calls
\* on the same Markdown instance, ToHtml(t) returns what a first call with t
\* returns.
C7_NoStateBetweenCalls == pc = "done" => result = ToHtml(text)

\* a call that followed another one and returned a header
C7_Witness ==
    /\ pc = "done"
    /\ earlier
    /\ text = <<"#", " ", "#">>
    /\ result = Wrapped(<<"h", "1">>, <<"#">>)

RECURSIVE ChainFrom(_, _)
\* the handlers met from h on along the next links, at most fuel of them
ChainFrom(h, fuel) ==
    IF h = NULL \/ fuel = 0 THEN <<>> ELSE <<h>> \o ChainFrom(Build.next[h], fuel - 1)

\* what is left to do of the call under way: the lines not yet handled, and
\* within a line the handlers not yet invoked
Rank ==
    CASE pc = "loop" -> 10 * (Len(lines) - index) + 1
      [] pc = "chain" -> 10 * (Len(lines) - index) - Len(log[Len(log)].offered)
      [] OTHER -> 0

C8_Bounded ==
    LET chain == ChainFrom(Build.head, 9)
    IN  /\ chain = <<1, 2, 3, 4, 5, 6, 7, 8>>
        /\ Build.objects[8].class = "ParagraphHandler"
        /\ Build.next[8] = NULL
        /\ \A i \in 1..Len(log) :
              /\ Len(log[i].offered) <= 8
              /\ log[i].offered = SubSeq(chain, 1, Len(log[i].offered))
        /\ Len(log) <= Len(lines)
        /\ pc = "loop" => Len(log) = index /\ index <= Len(lines)
        /\ pc = "chain" =>
              /\ Len(log) = index + 1
              /\ handler \in DOMAIN Build.objects
              /\ log[Len(log)].offered = SubSeq(chain, 1, handler - 1)
        /\ pc = "done" => Len(log) = Len(lines) /\ index = Len(lines) /\ Len(result) >= 7
        /\ Rank >= 0

C8_Progress == pc \in {"loop", "chain"} => Rank' < Rank

\* C8: ToHtml terminates and returns a string: the chain Build makes is a
\* finite acyclic list of 8 handlers that ends in the paragraph handler, a
\* line visits at most 8 handlers, the loop runs once per line, a call under
\* way never invokes a handler that is not there nor reads a line that is not
\* there, and every step lessens what is left.
C8_Terminates == []C8_Bounded /\ [][C8_Progress]_vars

\* a two-line text both of whose lines went through all 8 handlers
C8_Witness ==
    /\ pc = "done"
    /\ Len(lines) = 2
    /\ \A i \in 1..2 : Len(log[i].offered) = 8

\* C9: every TagKind has exactly one catalog entry, and for a kind absent
\* from the catalog OpeningTag and ClosingTag return "<p>" and "</p>".
C9_CatalogFallback ==
    tagOut.asked =>
        LET present == {i \in 1..Len(tagTypeEntries) : tagTypeEntries[i][1] = tagOut.kind}
        IN  /\ tagOut.kind \in TagType => Cardinality(present) = 1
            /\ present = {} =>
                  /\ tagOut.opening = <<"<", "p", ">">>
                  /\ tagOut.closing = <<"<", "/", "p", ">">>

\* C10: whatever the interleaving of the per-line steps of the calls, each
\* call returns the string it returns when run alone, a function of its own
\* text only.
C10_Isolation == \A p \in Procs : conv[p].pc = "done" => conv[p].result = ToHtml(conv[p].text)

\* two calls on different two-line texts, each of which handled a line while
\* the other was between its two lines, have both returned
C10_Witness ==
    /\ \A p \in Procs : conv[p].pc = "done" /\ conv[p].mixed /\ Len(conv[p].lines) = 2
    /\ conv[1].text = <<"#", " ", "\n">>
    /\ conv[2].text = <<"\n", " ">>
    /\ conv[1].result = Wrapped(<<"h", "1">>, <<>>) \o Wrapped(<<"p">>, <<>>)
    /\ conv[2].result = Wrapped(<<"p">>, <<>>) \o Wrapped(<<"p">>, <<" ">>)

\* the literal prefix of each rule the i-th line was offered to, in the order of
\* the offers; the paragraph rule, which has none, is written "default"
RulesOffered(i) ==
    [j \in 1..Len(log[i].offered) |->
        IF Build.objects[log[i].offered[j]].class = "ParagraphHandler"
        THEN <<"default">>
        ELSE Build.objects[log[i].offered[j]].tagType]

Header6FirstOrder ==
    <<HeaderPrefix(6), HeaderPrefix(5), HeaderPrefix(4), HeaderPrefix(3), HeaderPrefix(2),
      HeaderPrefix(1), <<"-", "-", "-">>, <<"default">> >>

Header1FirstOrder ==
    <<HeaderPrefix(1), HeaderPrefix(2), HeaderPrefix(3), HeaderPrefix(4), HeaderPrefix(5),
      HeaderPrefix(6), <<"-", "-", "-">>, <<"default">> >>

\* the rules offered the i-th line are the first ones of the order, and none
\* but the last of them accepted it
TriedInOrder(i, order) ==
    /\ Len(log[i].offered) <= Len(order)
    /\ RulesOffered(i) = SubSeq(order, 1, Len(log[i].offered))
    /\ \A j \in 1..(Len(log[i].offered) - 1) :
          /\ log[i].offered[j] \notin {log[i].accepted[k] : k \in 1..Len(log[i].accepted)}
          /\ ~HasPrefix(log[i].line, order[j])

\* C11 as stated: the chain offers each line to the rules in the order
\* "###### ", "##### ", "#### ", "### ", "## ", "# ", "---", default paragraph,
\* a rule being tried only after every rule before it rejected the line.
C11_Header6FirstOrder == \A i \in 1..Len(log) : TriedInOrder(i, Header6FirstOrder)

\* C11 as amended: the chain offers each line to the rules in the order
\* "# ", "## ", "### ", "#### ", "##### ", "###### ", "---", default paragraph,
\* which is last; a rule is tried only after every rule before it rejected
\* the line.
C11_Header1FirstOrder == \A i \in 1..Len(log) : TriedInOrder(i, Header1FirstOrder)

\* a level-3 header: offered to "# ", to "## " and to "### ", which took it
C11_Witness ==
    /\ pc = "done"
    /\ text = <<"#", "#", "#", " ", "a">>
    /\ log[1].offered = <<1, 2, 3>>
    /\ log[1].accepted = <<3>>

\* line without its first n characters
Without(line, n) == [j \in 1..(Len(line) - n) |-> line[j + n]]

\* what C12 says Parse(line, prefix) returns
ParseAsStated(line, prefix) ==
    IF line = <<>> THEN <<FALSE, line>>
    ELSE IF HasPrefix(line, prefix) THEN <<TRUE, Without(line, Len(prefix))>>
    ELSE <<FALSE, line>>

\* C12: Parse(line, prefix) returns (false, line) for the empty line; otherwise
\* matched says whether line starts with the whole prefix, and the remainder
\* is line minus its first len(prefix) characters when matched, line itself
\* when not; nothing else is trimmed. It is so for the line in the chain and
\* each of the seven prefixes, and the fragment of a line a prefix handler
\* took holds that very remainder.
C12_Parse ==
    /\ pc = "chain" =>
          \A prefix \in SevenPrefixes :
              Parse(CurrentLine, prefix) = ParseAsStated(CurrentLine, prefix)
    /\ \A i \in 1..Len(log) :
          (Handled(i) /\ log[i].accepted # <<8>>) =>
              LET h == Build.objects[log[i].accepted[1]]
              IN  /\ HasPrefix(log[i].line, h.tagType)
                  /\ log[i].added =
                        <<OpeningTag(h.visitor) \o Without(log[i].line, Len(h.tagType))
                            \o ClosingTag(h.visitor)>>

\* "#  a": the second space stays in the remainder
C12_Witness ==
    /\ pc = "done"
    /\ text = <<"#", " ", " ", "a">>
    /\ log[1].accepted = <<1>>
    /\ result = Wrapped(<<"h", "1">>, <<" ", "a">>)

IsPrefixOf(a, b) == Len(a) <= Len(b) /\ SubSeq(b, 1, Len(a)) = a

C13_Buffer ==
    /\ doc.content = Flatten(doc.history)
    /\ Get(doc.content) = Flatten(doc.history)
    /\ doc.asked => doc.got = Flatten(SubSeq(doc.history, 1, doc.gotAt))

C13_Step ==
    /\ IsPrefixOf(doc.content, doc'.content)
    /\ doc'.history = doc.history => doc'.content = doc.content
    /\ doc'.got # doc.got => doc'.content = doc.content

\* C13: MarkdownDocument is append-only: after any sequence of Add and Get
\* calls Get returns the concatenation of every fragment passed to Add so far,
\* in call and argument order; Get never changes the buffer, Add with no
\* fragments leaves it unchanged, and the content before an Add is a prefix
\* of the content after it.
C13_AppendOnly == []C13_Buffer /\ [][C13_Step]_vars

\* Add("a", "<p>"), Get, Add("<p>"): the Get returned "a<p>", the buffer now
\* holds "a<p><p>"
C13_Witness ==
    /\ doc.history = << <<"a">>, <<"<", "p", ">">>, <<"<", "p", ">">> >>
    /\ doc.asked
    /\ doc.gotAt = 2
    /\ doc.got = <<"a", "<", "p", ">">>
    /\ doc.content = <<"a", "<", "p", ">", "<", "p", ">">>

\* C14: after any sequence of key-up and load events the display element
\* holds ToHtml of the input element's value at the most recent event; for an
\* empty value the handler writes "<p></p>" without calling the converter,
\* which is what ToHtml("") returns; when the input element does not exist no
\* handler is registered and the display is never written.
C14_Display ==
    /\ (ui.events /\ ui.outputExists) =>
          /\ ui.written
          /\ ui.display = ToHtml(ui.lastValue)
          /\ ui.converted = (ui.lastValue # <<>>)
          /\ ui.lastValue = <<>> => ui.display = <<"<", "p", ">", "<", "/", "p", ">">>
    /\ (ui.called /\ ~ui.inputExists) => ~ui.registered /\ ~ui.events /\ ~ui.written
    /\ ~ui.called => ~ui.registered /\ ~ui.written

\* an event found the input empty; the user has typed since, with no event yet
C14_Witness ==
    /\ ui.events
    /\ ui.outputExists
    /\ ui.lastValue = <<>>
    /\ ~ui.converted
    /\ ui.display = <<"<", "p", ">", "<", "/", "p", ">">>
    /\ ui.value = <<"#", " ", "#">>
    /\ ui.lastEvent = "keyup"

\* C15: no line is accepted by more than one of the seven prefix handlers, so
\* ToHtml returns the same string for every permutation of the seven prefix
\* handlers with the paragraph handler last: each such chain gives what the
\* code's chain, level 1 first, gives.
C15_OrderIrrelevant ==
    alt.asked =>
        /\ alt.result = ToHtml(alt.text)
        /\ \A i \in 1..(Cardinality(NewlinesOf(alt.text)) + 1) :
              Cardinality({h \in DOMAIN alt.order :
                              Parse(LineOf(alt.text, i), Build.objects[h].tagType)[1]}) <= 1

\* the chain with level 6 first turned "### " into the empty level-3 header the
\* code's chain turns it into
C15_Witness ==
    /\ alt.asked
    /\ alt.order = <<6, 5, 4, 3, 2, 1, 7>>
    /\ alt.text = <<"#", "#", "#", " ">>
    /\ alt.result = Wrapped(<<"h", "3">>, <<>>)

====
